---- MODULE Spec2Model ----
(***************************************************************************)
(* A model of the zero-copy slice view (ZSlice) of zenoh-buffers and of    *)
(* its Reader / BacktrackableReader implementation.                        *)
(*                                                                         *)
(* A byte buffer is a sequence of bytes held by one Arc allocation; a      *)
(* ZSlice is the triple (buf, start, end).  Every operation of zslice.rs   *)
(* is an operator computed as the code computes it, on machine integers    *)
(* (usize) whose overflow either panics or wraps, as the build decides.    *)
(***************************************************************************)
EXTENDS Integers, Sequences, FiniteSets, TLC

\* ------------------------------------------------------------------ bounds
\* longest byte buffer
MaxLen == 3
\* usize is modelled modulo UsizeMod (the code's usize is modulo 2^64)
UsizeMod == 8

\* The code copies bytes and never inspects their values: two values are enough
\* to tell any two windows of a buffer apart.
Byte == {0, 1}
Buffers == UNION {[1..n -> Byte] : n \in 0..MaxLen}
UsizeMax == UsizeMod - 1
\* arguments of type usize handed to make / new_sub_slice / read_zslice
Args == (0..(MaxLen + 1)) \cup {UsizeMax}
\* lengths of the destination slices handed to read / read_exact
DstLens == 0..(MaxLen + 1)

VARIABLES
    heap,             \* Arc allocation id -> bytes of the buffer it holds
    zs,               \* the ZSlice the caller operates on (self)
    mark,             \* the Mark taken on zs by mark(), with zs as it was then
    rt,               \* bytes read_u8 has returned since zs was built from a buffer
    last,             \* the last call: its name, arguments, self before it, result
    overflow_checks,  \* the build: TRUE panics on usize overflow, FALSE wraps
    alias             \* a second live ZSlice over the same allocation, kept by the caller

VARIABLES
    builder,          \* the PublisherBuilder the caller holds
    pending,          \* the PublicationBuilders the caller holds, oldest first
    publisher,        \* the Publisher handle the caller holds
    calls,            \* the calls the session has received, oldest first
    done,             \* the last builder operation: its name, self before it, result
    waits             \* how many builders have been resolved by wait()

\* what the ZSlice operations leave alone
pvars == <<builder, pending, publisher, calls, done, waits>>
other == <<alias, pvars>>

\* what the builder operations leave alone
zvars == <<heap, zs, mark, rt, last, overflow_checks, alias>>

vars == <<heap, zs, mark, rt, last, overflow_checks, other>>

\* ------------------------------------------------------------------ values
\* The one live Arc<dyn ZSliceBuffer> allocation.
TheArc == 1
NoView == [buf |-> 0, start |-> 0, end |-> 0]
NoMark == [set |-> FALSE, pos |-> 0, at |-> NoView]
NoLog == [on |-> FALSE, src |-> <<>>, got |-> <<>>]

Min(a, b) == IF a <= b THEN a ELSE b

\* usize + usize: panics with overflow checks, wraps without
AddUsize(a, b) ==
    [panic |-> overflow_checks /\ a + b >= UsizeMod, val |-> (a + b) % UsizeMod]

\* usize - usize: panics with overflow checks, wraps without
SubUsize(a, b) ==
    [panic |-> overflow_checks /\ a < b, val |-> (a - b) % UsizeMod]

\* what a call returns: ret is "Ok" | "Err" | "Some" | "None" | "Panic" | "Val";
\* n a number, data the bytes copied out, view the ZSlice returned, next is self
\* after the call, sink the views handed to the caller's closure
Res(ret, n, data, view, next) ==
    [ret |-> ret, n |-> n, data |-> data, view |-> view, next |-> next,
     sink |-> <<>>]

Panicked(self) == Res("Panic", 0, <<>>, NoView, self)

\* ------------------------------------------------------------------ ZSlice
\* struct ZSlice { buf, start, end }
ZSlice(buf, start, end) == [buf |-> buf, start |-> start, end |-> end]

\* buf.as_slice().len()
BufLen(buf) == Len(heap[buf])

\* ZSlice::make: Ok(ZSlice) if end <= buf.len(), else Err(buf); Err carries the
\* Arc in n
Make(buf, start, end) ==
    IF end <= BufLen(buf)
    THEN Res("Ok", 0, <<>>, ZSlice(buf, start, end), NoView)
    ELSE Res("Err", buf, <<>>, NoView, NoView)

\* ZSlice::len: self.end - self.start
ZLen(self) == SubUsize(self.end, self.start)

\* ZSlice::is_empty: self.len() == 0
IsEmpty(self) == [panic |-> ZLen(self).panic, val |-> ZLen(self).val = 0]

\* ZSlice::as_slice: &buf[start..end], which panics unless start <= end <= len
AsSlice(self) ==
    IF self.start <= self.end /\ self.end <= BufLen(self.buf)
    THEN [panic |-> FALSE,
          bytes |-> SubSeq(heap[self.buf], self.start + 1, self.end)]
    ELSE [panic |-> TRUE, bytes |-> <<>>]

\* From<T: ZSliceBuffer> and From<Arc<T>>: the whole buffer, end = its length
FromBuf(buf, bytes) == ZSlice(buf, 0, Len(bytes))

\* new_sub_slice that forgets the offset of its own window (mutant)
NewSubSliceRelative(self, start, end) ==
    LET len == ZLen(self)
    IN  IF len.panic THEN Panicked(self)
        ELSE IF end <= len.val
             THEN Res("Some", 0, <<>>, ZSlice(self.buf, start, end), self)
             ELSE Res("None", 0, <<>>, NoView, self)

\* ZSlice::new_sub_slice
NewSubSlice(self, start, end) ==
    LET len == ZLen(self)
        s == AddUsize(self.start, start)
        e == AddUsize(self.start, end)
    IN  IF len.panic THEN Panicked(self)
        ELSE IF end <= len.val
             THEN IF s.panic \/ e.panic THEN Panicked(self)
                  ELSE Res("Some", 0, <<>>, ZSlice(self.buf, s.val, e.val), self)
             ELSE Res("None", 0, <<>>, NoView, self)

\* Index<usize>: &self.buf.as_slice()[self.start + index]; the byte is in n
Index(self, index) ==
    LET at == AddUsize(self.start, index)
    IN  IF at.panic THEN Panicked(self)
        ELSE IF at.val >= BufLen(self.buf) THEN Panicked(self)
        ELSE Res("Val", heap[self.buf][at.val + 1], <<>>, NoView, self)

\* Index<Range<usize>>: &(self.deref())[range], the slice's own range indexing
IndexRange(self, from, to) ==
    LET w == AsSlice(self)
    IN  IF w.panic THEN Panicked(self)
        ELSE IF from > to \/ to > Len(w.bytes) THEN Panicked(self)
        ELSE Res("Val", 0, SubSeq(w.bytes, from + 1, to), NoView, self)

\* as_mut_slice writes nothing itself: the caller writes bytes through the slice
\* it returns, and here the bytes land at the start of the buffer
WriteAtBufferStart(buffer, self, bytes) ==
    [i \in 1..Len(buffer) |->
        IF i <= Len(bytes) THEN bytes[i] ELSE buffer[i]]

\* the buffer after bytes are written through the slice as_mut_slice returned:
\* &mut buf.as_mut_slice()[self.start..self.end]
WriteThrough(buffer, self, bytes) ==
    [i \in 1..Len(buffer) |->
        IF self.start < i /\ i <= self.end THEN bytes[i - self.start] ELSE buffer[i]]

\* self.as_mut_slice(): the window, mutable; slicing panics as in as_slice
AsMutSlice(self) ==
    LET w == AsSlice(self)
    IN  IF w.panic THEN Panicked(self)
        ELSE Res("Val", Len(w.bytes), w.bytes, NoView, self)

\* ------------------------------------------------------------------ &[u8] reader
\* Reader for &[u8] (the reader self.as_slice().reader() hands out): read copies
\* min(len(window), len(into)) bytes and returns their NonZeroUsize count, or
\* DidntRead when that count is zero
SliceRead(window, dstlen) ==
    LET n == Min(Len(window), dstlen)
    IN  IF n = 0 THEN [ret |-> "Err", n |-> 0, data |-> <<>>]
        ELSE [ret |-> "Ok", n |-> n, data |-> SubSeq(window, 1, n)]

\* read_exact copies exactly len(into) bytes, or DidntRead when the window is shorter
SliceReadExact(window, dstlen) ==
    IF Len(window) < dstlen THEN [ret |-> "Err", n |-> 0, data |-> <<>>]
    ELSE [ret |-> "Ok", n |-> dstlen, data |-> SubSeq(window, 1, dstlen)]

\* read_u8 reads one byte
SliceReadU8(window) == SliceRead(window, 1)

\* ------------------------------------------------------------------ Reader for &mut ZSlice
\* read that advances by the length of the destination (mutant)
ReadAdvancesByDst(self, dstlen) ==
    LET w == AsSlice(self)
        r == SliceRead(w.bytes, dstlen)
        adv == AddUsize(self.start, dstlen)
    IN  IF w.panic THEN Panicked(self)
        ELSE IF r.ret = "Err" THEN Res("Err", 0, <<>>, NoView, self)
        ELSE IF adv.panic THEN Panicked(self)
        ELSE Res("Ok", r.n, r.data, NoView, [self EXCEPT !.start = adv.val])

\* read: reads through a reader on as_slice(), then self.start += len.get()
Read(self, dstlen) ==
    LET w == AsSlice(self)
        r == SliceRead(w.bytes, dstlen)
        adv == AddUsize(self.start, r.n)
    IN  IF w.panic THEN Panicked(self)
        ELSE IF r.ret = "Err" THEN Res("Err", 0, <<>>, NoView, self)
        ELSE IF adv.panic THEN Panicked(self)
        ELSE Res("Ok", r.n, r.data, NoView, [self EXCEPT !.start = adv.val])

\* read_exact that reads what there is and then finds it too short (mutant)
ReadExactViaRead(self, dstlen) ==
    LET r == Read(self, dstlen)
    IN  IF r.ret = "Panic" THEN r
        ELSE IF dstlen = 0 THEN Res("Ok", 0, <<>>, NoView, self)
        ELSE IF r.ret = "Ok" /\ r.n = dstlen THEN Res("Ok", 0, r.data, NoView, r.next)
        ELSE Res("Err", 0, <<>>, NoView, r.next)

\* read_exact: reads through a reader on as_slice(), then self.start += into.len()
ReadExact(self, dstlen) ==
    LET w == AsSlice(self)
        r == SliceReadExact(w.bytes, dstlen)
        adv == AddUsize(self.start, dstlen)
    IN  IF w.panic THEN Panicked(self)
        ELSE IF r.ret = "Err" THEN Res("Err", 0, <<>>, NoView, self)
        ELSE IF adv.panic THEN Panicked(self)
        ELSE Res("Ok", 0, r.data, NoView, [self EXCEPT !.start = adv.val])

\* read_u8 that leaves the cursor where it was (mutant)
ReadU8KeepsCursor(self) ==
    LET w == AsSlice(self)
        r == SliceReadU8(w.bytes)
    IN  IF w.panic THEN Panicked(self)
        ELSE IF r.ret = "Err" THEN Res("Err", 0, <<>>, NoView, self)
        ELSE Res("Ok", 0, r.data, NoView, self)

\* read_u8: reads through a reader on as_slice(), then self.start += 1
ReadU8(self) ==
    LET w == AsSlice(self)
        r == SliceReadU8(w.bytes)
        adv == AddUsize(self.start, 1)
    IN  IF w.panic THEN Panicked(self)
        ELSE IF r.ret = "Err" THEN Res("Err", 0, <<>>, NoView, self)
        ELSE IF adv.panic THEN Panicked(self)
        ELSE Res("Ok", 0, r.data, NoView, [self EXCEPT !.start = adv.val])

\* read_zslice that moves the cursor before it cuts the view (mutant)
ReadZSliceAdvancesFirst(self, len) ==
    LET adv == AddUsize(self.start, len)
        moved == [self EXCEPT !.start = adv.val]
        sub == NewSubSlice(moved, 0, len)
    IN  IF NewSubSlice(self, 0, len).ret # "Some" \/ adv.panic \/ sub.ret # "Some"
        THEN Res("Err", 0, <<>>, NoView, self)
        ELSE Res("Ok", 0, <<>>, sub.view, moved)

\* read_zslice that returns the view and leaves the cursor where it was (mutant)
ReadZSliceKeepsCursor(self, len) ==
    LET sub == NewSubSlice(self, 0, len)
    IN  IF sub.ret = "Panic" THEN Panicked(self)
        ELSE IF sub.ret = "None" THEN Res("Err", 0, <<>>, NoView, self)
        ELSE Res("Ok", 0, <<>>, sub.view, self)

\* read_zslice: new_sub_slice(0, len).ok_or(DidntRead)?, then self.start += len
ReadZSlice(self, len) ==
    LET sub == NewSubSlice(self, 0, len)
        adv == AddUsize(self.start, len)
    IN  IF sub.ret = "Panic" THEN Panicked(self)
        ELSE IF sub.ret = "None" THEN Res("Err", 0, <<>>, NoView, self)
        ELSE IF adv.panic THEN Panicked(self)
        ELSE Res("Ok", 0, <<>>, sub.view, [self EXCEPT !.start = adv.val])

\* read_zslices: read_zslice(len)?, then f(zslice)
ReadZSlices(self, len) ==
    LET z == ReadZSlice(self, len)
    IN  IF z.ret = "Ok"
        THEN [Res("Ok", 0, <<>>, NoView, z.next) EXCEPT !.sink = <<z.view>>]
        ELSE z

\* remaining: self.len()
Remaining(self) ==
    IF ZLen(self).panic THEN Panicked(self)
    ELSE Res("Val", ZLen(self).val, <<>>, NoView, self)

\* can_read: !self.is_empty(); n is 1 for true
CanRead(self) ==
    IF IsEmpty(self).panic THEN Panicked(self)
    ELSE Res("Val", IF IsEmpty(self).val THEN 0 ELSE 1, <<>>, NoView, self)

\* ------------------------------------------------------------------ BacktrackableReader
\* mark: self.start
Mark(self) == Res("Val", self.start, <<>>, NoView, self)

\* rewind that answers true and restores nothing (mutant)
RewindKeepsCursor(self, m) == Res("Val", 1, <<>>, NoView, self)

\* rewind: self.start = mark; true
Rewind(self, m) == Res("Val", 1, <<>>, NoView, [self EXCEPT !.start = m])

\* ------------------------------------------------------------------ the state machine
\* ------------------------------------------------------------------ builders: values
\* The session the builders borrow; a wire key expression may carry the id of
\* another one.
TheSession == 1
OtherSession == 2

Encodings == {"ZENOH_BYTES", "TEXT_PLAIN"}
CongestionControls == {"Drop", "Block"}
Priorities == {"Data", "RealTime"}
Reliabilities == {"Reliable", "BestEffort"}
Localities == {"Any", "SessionLocal"}
SourceInfos == {"empty", "known"}

\* Option<T>: None is <<>>, Some(v) is <<v>>
None == <<>>
Some(v) == <<v>>

Payloads == {<<>>, <<1>>}
Timestamps == {None, Some(1)}
Attachments == {None, Some(<<1>>)}

\* key expressions: the four forms of KeyExprInner over a key string
Keys == {"a", "a/b"}
Literal(form, key) ==
    [form |-> form, key |-> key, expr_id |-> 0, mapping |-> "none",
     prefix_len |-> 0, session_id |-> 0]
WireExpr(form, key, expr_id, prefix_len, session_id) ==
    [form |-> form, key |-> key, expr_id |-> expr_id, mapping |-> "Sender",
     prefix_len |-> prefix_len, session_id |-> session_id]

\* the expr_id a wire key expression carries before the builder is resolved
OldExprId == 1
\* the expr_ids declare_prefix hands out and the ids declare_publisher_inner assigns
ExprIds == {2, 3}
PublisherIds == {1, 2}

KeyExprs ==
    {Literal(f, k) : f \in {"Borrowed", "Owned"}, k \in Keys}
    \cup {WireExpr(f, k, OldExprId, Len(k), sid) :
             f \in {"BorrowedWire", "Wire"}, k \in Keys,
             sid \in {TheSession, OtherSession}}

\* ZResult<KeyExpr>: the deferred error counts the "Cloned KE Error: " notes on it
OkKey(ke) == [ok |-> TRUE, ke |-> ke, err |-> 0]
ErrKey(notes) == [ok |-> FALSE, ke |-> Literal("none", ""), err |-> notes]
KeyError(notes) == [in |-> "key_expr", notes |-> notes]
SessionError(fn) == [in |-> fn, notes |-> 0]
NoError == [in |-> "none", notes |-> 0]

NoBuilder == [on |-> FALSE]
NoPublisher == [on |-> FALSE]

\* no builder, publication or handle in hand, and a session that has seen no call
NoBuilders ==
    /\ builder = NoBuilder
    /\ pending = <<>>
    /\ publisher = NoPublisher
    /\ calls = <<>>
    /\ done = [op |-> "none"]
    /\ waits = 0

\* the record of a call on self with arguments a, b and result r
Call(op, self, a, b, r) ==
    [op |-> op, self |-> self, a |-> a, b |-> b, ret |-> r.ret, n |-> r.n,
     data |-> r.data, view |-> r.view, sink |-> r.sink]

\* a caller holds a ZSlice over a buffer it has just built
Init ==
    \E bytes \in Buffers :
        /\ heap = (TheArc :> bytes)
        /\ zs = FromBuf(TheArc, bytes)
        /\ mark = NoMark
        /\ rt = [on |-> TRUE, src |-> bytes, got |-> <<>>]
        /\ last = Call("from", NoView, 0, 0,
                       Res("Val", 0, <<>>, FromBuf(TheArc, bytes), NoView))
        /\ overflow_checks \in BOOLEAN
        /\ alias = NoView
        /\ NoBuilders

\* ZSlice::from(buf: T): a new Arc allocation; the views of the old one are dropped
From(bytes) ==
    /\ heap' = (TheArc :> bytes)
    /\ zs' = FromBuf(TheArc, bytes)
    /\ mark' = NoMark
    /\ rt' = [on |-> TRUE, src |-> bytes, got |-> <<>>]
    /\ last' = Call("from", NoView, 0, 0, Res("Val", 0, <<>>, zs', NoView))
    /\ UNCHANGED <<overflow_checks, other>>

\* ZSlice::from(buf: Arc<T>): a view of the whole of the shared allocation
FromArc ==
    /\ zs' = FromBuf(TheArc, heap[TheArc])
    /\ mark' = NoMark
    /\ rt' = [on |-> TRUE, src |-> heap[TheArc], got |-> <<>>]
    /\ last' = Call("from", NoView, 0, 0, Res("Val", 0, <<>>, zs', NoView))
    /\ UNCHANGED <<heap, overflow_checks, other>>

\* ZSlice::make(buf, start, end) on the shared allocation: the caller goes on
\* with the view made, or, given the buffer back, with the view it had
MakeCall(start, end) ==
    LET r == Make(TheArc, start, end)
    IN  /\ last' = Call("make", NoView, start, end, r)
        /\ zs' = IF r.ret = "Ok" THEN r.view ELSE zs
        /\ mark' = IF r.ret = "Ok" THEN NoMark ELSE mark
        /\ rt' = IF r.ret = "Ok" THEN NoLog ELSE rt
        /\ UNCHANGED <<heap, overflow_checks, other>>

\* the caller goes on with the view the last call returned (ZSlice is Clone)
CloneView ==
    /\ last.view # NoView
    /\ zs' = last.view
    /\ mark' = NoMark
    /\ rt' = NoLog
    /\ last' = Call("clone", last.view, 0, 0, Res("Val", 0, <<>>, last.view, NoView))
    /\ UNCHANGED <<heap, overflow_checks, other>>

\* zs.new_sub_slice(start, end)
NewSubSliceCall(start, end) ==
    /\ last' = Call("new_sub_slice", zs, start, end, NewSubSlice(zs, start, end))
    /\ UNCHANGED <<heap, zs, mark, rt, overflow_checks, other>>

\* a call of a Reader method on zs that is not read_u8
ReaderCall(op, a, r) ==
    /\ last' = Call(op, zs, a, 0, r)
    /\ zs' = r.next
    /\ rt' = NoLog
    /\ UNCHANGED <<heap, mark, overflow_checks, other>>

ReadCall(dstlen) == ReaderCall("read", dstlen, Read(zs, dstlen))

ReadExactCall(dstlen) == ReaderCall("read_exact", dstlen, ReadExact(zs, dstlen))

ReadZSliceCall(len) == ReaderCall("read_zslice", len, ReadZSlice(zs, len))

ReadZSlicesCall(len) == ReaderCall("read_zslices", len, ReadZSlices(zs, len))

\* zs.read_u8(); the byte it returns is logged
ReadU8Call ==
    LET r == ReadU8(zs)
    IN  /\ last' = Call("read_u8", zs, 0, 0, r)
        /\ zs' = r.next
        /\ rt' = IF rt.on /\ r.ret = "Ok"
                 THEN [rt EXCEPT !.got = rt.got \o r.data]
                 ELSE rt
        /\ UNCHANGED <<heap, mark, overflow_checks, other>>

\* zs.remaining() and zs.can_read()
RemainingCall ==
    /\ last' = Call("remaining", zs, 0, 0, Remaining(zs))
    /\ UNCHANGED <<heap, zs, mark, rt, overflow_checks, other>>

CanReadCall ==
    /\ last' = Call("can_read", zs, 0, 0, CanRead(zs))
    /\ UNCHANGED <<heap, zs, mark, rt, overflow_checks, other>>

\* m = zs.mark()
MarkCall ==
    LET r == Mark(zs)
    IN  /\ last' = Call("mark", zs, 0, 0, r)
        /\ mark' = [set |-> TRUE, pos |-> r.n, at |-> zs]
        /\ UNCHANGED <<heap, zs, rt, overflow_checks, other>>

\* zs.rewind(m), m a mark taken on zs
RewindCall ==
    LET r == Rewind(zs, mark.pos)
    IN  /\ mark.set
        /\ last' = Call("rewind", zs, mark.pos, 0, r)
        /\ zs' = r.next
        /\ rt' = NoLog
        /\ UNCHANGED <<heap, mark, overflow_checks, other>>

\* zs[index]
IndexCall(index) ==
    /\ last' = Call("index", zs, index, 0, Index(zs, index))
    /\ UNCHANGED <<heap, zs, mark, rt, overflow_checks, other>>

\* zs[from..to]
IndexRangeCall(from, to) ==
    /\ last' = Call("index_range", zs, from, to, IndexRange(zs, from, to))
    /\ UNCHANGED <<heap, zs, mark, rt, overflow_checks, other>>

\* the caller keeps the view the last call returned as a second live view
KeepView ==
    /\ last.view # NoView
    /\ alias' = last.view
    /\ last' = Call("clone", last.view, 0, 0, Res("Val", 0, <<>>, last.view, NoView))
    /\ UNCHANGED <<heap, zs, mark, rt, overflow_checks, pvars>>

\* unsafe { zs.as_mut_slice() }, then the caller writes bytes over the whole
\* slice, as the test at zslice.rs:329 does for one byte; the holders of the
\* views take turns
AsMutSliceCall(bytes) ==
    LET r == AsMutSlice(zs)
    IN  /\ Len(bytes) = IF r.ret = "Val" THEN r.n ELSE 0
        /\ heap' = IF r.ret = "Val"
                    THEN [heap EXCEPT ![zs.buf] = WriteThrough(@, zs, bytes)]
                    ELSE heap
        /\ rt' = NoLog
        /\ last' = Call("as_mut_slice", zs, 0, 0,
                         IF r.ret = "Val" THEN Res("Val", r.n, bytes, NoView, zs)
                         ELSE r)
                    @@ [old |-> heap[zs.buf], held |-> alias]
        /\ UNCHANGED <<zs, mark, overflow_checks, alias, pvars>>

\* building views: the constructors, make, new_sub_slice and clone
NextView ==
    \/ FromArc
    \/ \E s, e \in Args : MakeCall(s, e)

\* cutting views out of views: new_sub_slice and clone
NextSub ==
    \/ FromArc
    \/ CloneView
    \/ \E s, e \in Args : NewSubSliceCall(s, e)

\* reading: a view built from a buffer, or cut out of one by read_zslice, is read
NextReader ==
    \/ FromArc
    \/ CloneView
    \/ \E d \in DstLens : ReadCall(d)
    \/ \E d \in DstLens : ReadExactCall(d)
    \/ ReadU8Call
    \/ \E n \in Args : ReadZSliceCall(n)
    \/ \E n \in Args : ReadZSlicesCall(n)
    \/ RemainingCall
    \/ CanReadCall
    \/ MarkCall
    \/ RewindCall

\* indexing the views make builds
NextIndex ==
    \/ FromArc
    \/ \E s, e \in Args : MakeCall(s, e)
    \/ \E i \in Args : IndexCall(i)
    \/ \E from, to \in Args : IndexRangeCall(from, to)

\* writing through views that share the allocation
NextMut ==
    \/ \E s, e \in 0..MaxLen : MakeCall(s, e)
    \/ KeepView
    \/ \E bytes \in Buffers : AsMutSliceCall(bytes)

\* reading views made with explicit bounds too
NextReaderMade == NextReader \/ (\E s, e \in Args : MakeCall(s, e))

Next == (\E bytes \in Buffers : From(bytes)) \/ NextView \/ NextSub \/ NextReader

\* every operation of zslice.rs
Spec == Init /\ [][Next]_vars

\* the operations that build views
SpecView == Init /\ [][NextView]_vars

\* new_sub_slice on the views it returns
SpecSub == Init /\ [][NextSub]_vars

\* the Reader and BacktrackableReader operations
SpecReader == Init /\ [][NextReader]_vars

\* the Reader operations on the views make builds as well
SpecReaderMade == Init /\ [][NextReaderMade]_vars

\* as_mut_slice on views of one allocation
SpecMut == Init /\ [][NextMut]_vars

\* indexing
SpecIndex == Init /\ [][NextIndex]_vars

\* ------------------------------------------------------------------ properties
\* the data model's Slice View: start <= end <= len(buffer). The claims about
\* reading are claims about readers over Slice Views; a ZSlice that is none
\* (see C1) panics in as_slice.
IsSliceView(v) == v.start <= v.end /\ v.end <= BufLen(v.buf)

\* the views a state holds: self and the view the last call returned
Views == {zs, last.view} \ {NoView}

\* the length and the bytes of the window of a Slice View
WindowLen(v) == v.end - v.start
Window(v) == SubSeq(heap[v.buf], v.start + 1, v.end)
Advanced(v, n) == [v EXCEPT !.start = v.start + n]

\* C1: every view of every reachable state has start <= end <= len(buffer).
C1_ViewBounds == \A v \in Views : IsSliceView(v)

\* C2: make(buffer, start, end) returns a view with exactly those bounds if and
\* only if end <= len(buffer) and start <= end, and otherwise gives the buffer
\* back as the error value and makes no view.
C2_MakeChecksBounds ==
    last.op = "make" =>
        /\ last.ret = "Ok" <=> (last.b <= BufLen(TheArc) /\ last.a <= last.b)
        /\ last.ret = "Ok" => last.view = ZSlice(TheArc, last.a, last.b)
        /\ last.ret # "Ok" =>
              last.ret = "Err" /\ last.n = TheArc /\ last.view = NoView

\* C3: on a Slice View s, new_sub_slice(a, b) returns Some if and only if
\* 0 <= a <= b <= len(s), and None otherwise.
C3_SubSliceIffInWindow ==
    (last.op = "new_sub_slice" /\ IsSliceView(last.self)) =>
        /\ last.ret = "Some" <=> (last.a <= last.b /\ last.b <= WindowLen(last.self))
        /\ last.ret # "Some" => last.ret = "None"

\* C4: for a Slice View s and 0 <= a <= b <= len(s), new_sub_slice(a, b) returns
\* a view on s's buffer with bounds (s.start + a, s.start + b) whose bytes are
\* s.bytes[a..b], and s is as it was.
C4_SubSliceWindow ==
    (/\ last.op = "new_sub_slice"
     /\ IsSliceView(last.self)
     /\ last.a <= last.b
     /\ last.b <= WindowLen(last.self)) =>
        /\ last.ret = "Some"
        /\ last.view.buf = last.self.buf
        /\ last.view.start = last.self.start + last.a
        /\ last.view.end = last.self.start + last.b
        /\ AsSlice(last.view) =
              [panic |-> FALSE,
               bytes |-> SubSeq(Window(last.self), last.a + 1, last.b)]
        /\ zs = last.self

\* a sub-view that starts inside a view that starts inside the buffer, its first
\* byte unlike the byte before it
C4_Witness ==
    /\ last.op = "new_sub_slice"
    /\ last.ret = "Some"
    /\ IsSliceView(last.self)
    /\ last.self.start > 0
    /\ 0 < last.a
    /\ last.a < last.b
    /\ last.b <= WindowLen(last.self)
    /\ Window(last.self)[last.a] # Window(last.self)[last.a + 1]

\* C5 (as claimed): read(dst) copies n = min(len(dst), remaining) bytes from the
\* front of the window and advances the cursor by n; it fails with DidntRead
\* only when the window is empty, leaving the cursor, and never succeeds with
\* zero bytes.
C5_ReadFailsOnlyWhenEmpty ==
    (last.op = "read" /\ IsSliceView(last.self)) =>
        LET n == Min(last.a, WindowLen(last.self))
        IN  /\ last.ret \in {"Ok", "Err"}
            /\ last.ret = "Err" => (WindowLen(last.self) = 0 /\ zs = last.self)
            /\ last.ret = "Ok" =>
                  /\ last.n = n
                  /\ n > 0
                  /\ last.data = SubSeq(Window(last.self), 1, n)
                  /\ zs = Advanced(last.self, n)

\* C5 (amended): read(dst) copies n = min(len(dst), remaining) bytes from the
\* front of the window and advances the cursor by n; it fails with DidntRead
\* exactly when n = 0, that is when the window or dst is empty, leaving the
\* cursor, and never succeeds with zero bytes.
C5_ReadContract ==
    (last.op = "read" /\ IsSliceView(last.self)) =>
        LET n == Min(last.a, WindowLen(last.self))
        IN  /\ last.ret \in {"Ok", "Err"}
            /\ last.ret = "Err" <=> n = 0
            /\ last.ret = "Err" => zs = last.self
            /\ last.ret = "Ok" =>
                  /\ last.n = n
                  /\ n > 0
                  /\ last.data = SubSeq(Window(last.self), 1, n)
                  /\ zs = Advanced(last.self, n)

\* a read, from the middle of a window, into a destination longer than what is left
C5_Witness ==
    /\ last.op = "read"
    /\ last.ret = "Ok"
    /\ last.self.start > 0
    /\ WindowLen(last.self) >= 2
    /\ last.a > WindowLen(last.self)
    /\ WindowLen(zs) = 0

\* C6: read_exact(dst) copies exactly the next len(dst) bytes and advances the
\* cursor by len(dst), or fails with DidntRead; it fails exactly when
\* remaining < len(dst), and then the cursor is unchanged.
C6_ReadExactAllOrNothing ==
    (last.op = "read_exact" /\ IsSliceView(last.self)) =>
        /\ last.ret \in {"Ok", "Err"}
        /\ last.ret = "Err" <=> WindowLen(last.self) < last.a
        /\ last.ret = "Err" => zs = last.self
        /\ last.ret = "Ok" =>
              /\ Len(last.data) = last.a
              /\ last.data = SubSeq(Window(last.self), 1, last.a)
              /\ zs = Advanced(last.self, last.a)

\* a read_exact that fails with some, but too few, bytes left
C6_Witness ==
    /\ last.op = "read_exact"
    /\ last.ret = "Err"
    /\ last.self.start > 0
    /\ WindowLen(last.self) > 0
    /\ last.a > WindowLen(last.self)

\* C7: a view built over a buffer holding B yields under repeated read_u8 the
\* bytes of B in order, each read taking remaining() down by one, and after
\* len(B) reads every read_u8 is DidntRead with remaining() = 0 and can_read()
\* false.
C7_ReadU8RoundTrip ==
    rt.on =>
        /\ Len(rt.got) <= Len(rt.src)
        /\ rt.got = SubSeq(rt.src, 1, Len(rt.got))
        /\ Remaining(zs).ret = "Val"
        /\ Remaining(zs).n = Len(rt.src) - Len(rt.got)
        /\ CanRead(zs).n = (IF Len(rt.got) < Len(rt.src) THEN 1 ELSE 0)
        /\ last.op = "read_u8" =>
              /\ last.ret \in {"Ok", "Err"}
              /\ last.ret = "Ok" =>
                    /\ last.data = <<rt.src[Len(rt.got)]>>
                    /\ Remaining(last.self).n = Remaining(zs).n + 1
              /\ last.ret = "Err" =>
                    /\ rt.got = rt.src
                    /\ zs = last.self
                    /\ Remaining(zs).n = 0
                    /\ CanRead(zs).n = 0

\* the read_u8 after the last byte of a longest buffer that holds both byte values
C7_Witness ==
    /\ rt.on
    /\ last.op = "read_u8"
    /\ last.ret = "Err"
    /\ Len(rt.src) = MaxLen
    /\ rt.got = rt.src
    /\ \E i, j \in 1..Len(rt.src) : rt.src[i] # rt.src[j]

\* what read_zslice(len) owes on self: the view and the cursor after it
ZSliceOwed(self, len, ret, view, after) ==
    /\ ret \in {"Ok", "Err"}
    /\ ret = "Err" <=> WindowLen(self) < len
    /\ ret = "Err" => (after = self /\ view = NoView)
    /\ ret = "Ok" =>
          /\ view.buf = self.buf
          /\ AsSlice(view) =
                [panic |-> FALSE, bytes |-> SubSeq(Window(self), 1, len)]
          /\ after = Advanced(self, len)

\* C8: read_zslice(len) returns a view on the reader's buffer whose bytes are the
\* next len bytes of the window and advances the cursor by len; it fails with
\* DidntRead if and only if the window is shorter than len, and then the cursor
\* is unchanged. read_zslices(len, sink) calls sink once with that view on
\* success and never on failure.
C8_ReadZSlice ==
    /\ (last.op = "read_zslice" /\ IsSliceView(last.self)) =>
          /\ ZSliceOwed(last.self, last.a, last.ret, last.view, zs)
          /\ last.sink = <<>>
    /\ (last.op = "read_zslices" /\ IsSliceView(last.self)) =>
          /\ last.ret \in {"Ok", "Err"}
          /\ last.ret = "Ok" =>
                /\ Len(last.sink) = 1
                /\ ZSliceOwed(last.self, last.a, "Ok", last.sink[1], zs)
          /\ last.ret = "Err" =>
                /\ last.sink = <<>>
                /\ ZSliceOwed(last.self, last.a, "Err", NoView, zs)

\* read_zslice takes some, not all, of what is left of a window it is inside of,
\* and the byte it leaves is unlike the last byte it took
C8_Witness ==
    /\ last.op = "read_zslice"
    /\ last.ret = "Ok"
    /\ last.self.start > 0
    /\ last.a > 0
    /\ last.a < WindowLen(last.self)
    /\ Window(last.self)[last.a] # Window(last.self)[last.a + 1]

\* what a reader would answer next: remaining(), and every read on it
NextReads(r) ==
    [remaining |-> Remaining(r),
     can_read |-> CanRead(r),
     read |-> [d \in DstLens |-> Read(r, d)],
     read_exact |-> [d \in DstLens |-> ReadExact(r, d)],
     read_u8 |-> ReadU8(r),
     read_zslice |-> [n \in Args |-> ReadZSlice(r, n)]]

\* C9: with m = r.mark(), after any reads (that succeed or fail), r.rewind(m)
\* returns true and leaves r with the remaining() and the answer to every next
\* read that it had when the mark was taken.
C9_BacktrackLaw ==
    last.op = "rewind" =>
        /\ last.ret = "Val"
        /\ last.n = 1
        /\ NextReads(zs) = NextReads(mark.at)

\* a rewind over bytes that were read since the mark, the mark inside the buffer
C9_Witness ==
    /\ last.op = "rewind"
    /\ mark.pos > 0
    /\ last.self.start > mark.pos
    /\ zs.start = mark.pos
    /\ WindowLen(zs) >= 2

\* the bytes a call hands back: of read the bytes copied, of read_zslice the
\* bytes of the view, of a failed call none
BytesOfRead(r) == IF r.ret = "Ok" THEN r.data ELSE <<>>
BytesOfZSlice(z) == IF z.ret = "Ok" THEN AsSlice(z.view).bytes ELSE <<>>

\* C10 (as claimed): for every reader state and every n, read_zslice(n) with
\* as_slice of its result yields the bytes read with an n-byte destination
\* yields from that state, and both advance the cursor by the same amount.
C10_ZSliceAsReadAlways ==
    /\ (last.op = "read_zslice" /\ IsSliceView(last.self)) =>
          /\ BytesOfZSlice(last) = BytesOfRead(Read(last.self, last.a))
          /\ zs = Read(last.self, last.a).next
    /\ (last.op = "read" /\ IsSliceView(last.self)) =>
          /\ BytesOfRead(last) = BytesOfZSlice(ReadZSlice(last.self, last.a))
          /\ zs = ReadZSlice(last.self, last.a).next

\* C10 (amended): for every reader state and every n <= remaining(), or with
\* remaining() = 0, read_zslice(n) with as_slice of its result yields the bytes
\* read with an n-byte destination yields from that state, and both advance the
\* cursor by the same amount; with n > remaining() > 0, read_zslice fails and
\* leaves the cursor while read copies what remains and advances past it.
C10_ZSliceAsRead ==
    /\ (last.op = "read_zslice" /\ IsSliceView(last.self)) =>
          LET r == Read(last.self, last.a)
              rem == WindowLen(last.self)
          IN  /\ (last.a <= rem \/ rem = 0) =>
                    /\ BytesOfZSlice(last) = BytesOfRead(r)
                    /\ zs = r.next
                    /\ last.a >= 1 => last.ret = r.ret
              /\ (last.a > rem /\ rem > 0) =>
                    /\ last.ret = "Err"
                    /\ zs = last.self
                    /\ r.ret = "Ok"
                    /\ r.data = Window(last.self)
                    /\ r.next = Advanced(last.self, rem)
    /\ (last.op = "read" /\ IsSliceView(last.self)) =>
          LET z == ReadZSlice(last.self, last.a)
              rem == WindowLen(last.self)
          IN  /\ (last.a <= rem \/ rem = 0) =>
                    /\ BytesOfRead(last) = BytesOfZSlice(z)
                    /\ zs = z.next
                    /\ last.a >= 1 => last.ret = z.ret
              /\ (last.a > rem /\ rem > 0) =>
                    /\ z.ret = "Err"
                    /\ z.next = last.self
                    /\ last.ret = "Ok"
                    /\ last.data = Window(last.self)
                    /\ zs = Advanced(last.self, rem)

\* read_zslice takes two or more bytes that differ from inside a window
C10_Witness ==
    /\ last.op = "read_zslice"
    /\ last.ret = "Ok"
    /\ last.self.start > 0
    /\ last.a >= 2
    /\ Window(last.self)[1] # Window(last.self)[2]

\* C11: indexing a Slice View is indexing its window buffer[start..end]: view[i]
\* is buffer[start + i] when i < len(view) and panics for every i >= len(view),
\* and view[from..to] is window[from..to] or panics.
C11_IndexIsWindowIndex ==
    /\ (last.op = "index" /\ IsSliceView(last.self)) =>
          IF last.a < WindowLen(last.self)
          THEN last.ret = "Val" /\ last.n = Window(last.self)[last.a + 1]
          ELSE last.ret = "Panic"
    /\ (last.op = "index_range" /\ IsSliceView(last.self)) =>
          IF last.a <= last.b /\ last.b <= WindowLen(last.self)
          THEN last.ret = "Val"
               /\ last.data = SubSeq(Window(last.self), last.a + 1, last.b)
          ELSE last.ret = "Panic"

\* the byte as_slice of the view v returns at offset i of its window, after a
\* write of data through the view w over a buffer that held old
ByteAfterWrite(v, i, w, data, old) ==
    IF w.start < v.start + i /\ v.start + i <= w.end
    THEN data[v.start + i - w.start]
    ELSE old[v.start + i]

\* C12: bytes written through the slice as_mut_slice returns for one view are
\* what as_slice returns afterwards for that view and, over the shared range,
\* for every other live view of the allocation; the write touches only
\* buffer[start..end] and leaves every view's start and end as they were.
C12_WriteIsShared ==
    (last.op = "as_mut_slice" /\ last.ret = "Val") =>
        LET w == last.self
        IN  /\ AsSlice(w) = [panic |-> FALSE, bytes |-> last.data]
            /\ \A v \in {zs, alias} \ {NoView} :
                   IsSliceView(v) =>
                       /\ ~AsSlice(v).panic
                       /\ \A i \in 1..WindowLen(v) :
                              AsSlice(v).bytes[i]
                                  = ByteAfterWrite(v, i, w, last.data, last.old)
            /\ Len(heap[w.buf]) = Len(last.old)
            /\ \A i \in 1..Len(last.old) :
                   (i <= w.start \/ i > w.end) => heap[w.buf][i] = last.old[i]
            /\ zs = last.self /\ alias = last.held

\* a write through a proper sub-view changed a byte that the other, wider view
\* now returns, and left a byte outside the sub-view alone
C12_Witness ==
    /\ last.op = "as_mut_slice" /\ last.ret = "Val"
    /\ last.held # NoView /\ IsSliceView(last.held)
    /\ last.self.start > last.held.start
    /\ last.self.end <= last.held.end
    /\ WindowLen(last.self) > 0
    /\ last.data # SubSeq(last.old, last.self.start + 1, last.self.end)
    /\ AsSlice(last.held).bytes # SubSeq(last.old, last.held.start + 1, last.held.end)

\* ------------------------------------------------------------------ builders: operations
\* The QoS a builder starts with.
DefaultQoS ==
    [encoding |-> "ZENOH_BYTES", congestion_control |-> "Drop", priority |-> "Data",
     is_express |-> FALSE, reliability |-> "Reliable", destination |-> "Any"]

\* struct PublisherBuilder with the QoS q
PublisherBuilder(key_expr, q) ==
    [on |-> TRUE, session |-> TheSession, key_expr |-> key_expr,
     encoding |-> q.encoding, congestion_control |-> q.congestion_control,
     priority |-> q.priority, is_express |-> q.is_express,
     reliability |-> q.reliability, destination |-> q.destination]

\* struct PublicationBuilder<P, T>: target says what P is, kind what T is; a
\* Delete has no payload and no encoding of its own; seq is the rank of its
\* construction among the publications of its handle
PublicationBuilder(target, p, kind, payload, encoding, seq) ==
    [target |-> target, publisher |-> p, kind |-> kind, payload |-> payload,
     encoding |-> encoding, timestamp |-> None, source_info |-> "empty",
     attachment |-> None, seq |-> seq]

\* Session::declare_publisher(key_expr)
DeclarePublisher(key_expr) == PublisherBuilder(key_expr, DefaultQoS)

\* Session::put(key_expr, payload) and Session::delete(key_expr)
SessionPut(key_expr, payload, encoding) ==
    PublicationBuilder("builder", DeclarePublisher(key_expr), "Put", payload,
                       encoding, 0)
SessionDelete(key_expr) ==
    PublicationBuilder("builder", DeclarePublisher(key_expr), "Delete", <<>>,
                       "none", 0)

\* Publisher::put(payload) and Publisher::delete() on the handle p
PublisherPut(p, payload, encoding, seq) ==
    PublicationBuilder("publisher", p, "Put", payload, encoding, seq)
PublisherDelete(p, seq) ==
    PublicationBuilder("publisher", p, "Delete", <<>>, "none", seq)

\* the outcome of a builder operation: what it returns (ret, err, out) and the
\* session calls it made, in order
Outcome(ret, err, out, made) ==
    [ret |-> ret, err |-> err, out |-> out, calls |-> made]

\* QoSBuilderTrait for PublisherBuilder, allowed_destination, reliability
CongestionControl(self, congestion_control) ==
    [self EXCEPT !.congestion_control = congestion_control]
Priority(self, priority) == [self EXCEPT !.priority = priority]
Express(self, is_express) == [self EXCEPT !.is_express = is_express]
AllowedDestination(self, destination) == [self EXCEPT !.destination = destination]
Reliability(self, reliability) == [self EXCEPT !.reliability = reliability]

\* EncodingBuilderTrait for PublisherBuilder
Encoding(self, encoding) == [self EXCEPT !.encoding = encoding]

\* QoSBuilderTrait for PublicationBuilder<PublisherBuilder, T>: the setting is
\* routed to the inner builder
PublicationCongestionControl(self, congestion_control) ==
    [self EXCEPT !.publisher = CongestionControl(@, congestion_control)]
PublicationPriority(self, priority) ==
    [self EXCEPT !.publisher = Priority(@, priority)]
PublicationExpress(self, is_express) ==
    [self EXCEPT !.publisher = Express(@, is_express)]
PublicationAllowedDestination(self, destination) ==
    [self EXCEPT !.publisher = AllowedDestination(@, destination)]
PublicationReliability(self, reliability) ==
    [self EXCEPT !.publisher = Reliability(@, reliability)]

\* EncodingBuilderTrait for PublicationBuilder<P, PublicationBuilderPut>
PutEncoding(self, encoding) == [self EXCEPT !.encoding = encoding]

\* SampleBuilderTrait and TimestampBuilderTrait for PublicationBuilder<P, T>
SourceInfo(self, source_info) == [self EXCEPT !.source_info = source_info]
Attachment(self, attachment) == [self EXCEPT !.attachment = attachment]
Timestamp(self, timestamp) == [self EXCEPT !.timestamp = timestamp]

\* a clone that takes the key expression for granted
CloneForgetsError(self) ==
    [self EXCEPT !.key_expr = IF self.key_expr.ok THEN self.key_expr
                              ELSE OkKey(Literal("Owned", "a"))]

\* Clone for PublisherBuilder: Ok(k) => Ok(k.clone()),
\* Err(e) => Err(zerror!("Cloned KE Error: {}", e))
Clone(self) ==
    [self EXCEPT !.key_expr = IF self.key_expr.ok THEN self.key_expr
                              ELSE ErrKey(self.key_expr.err + 1)]

\* #[derive(Clone)] for PublicationBuilder<P, T>: a builder target is cloned
\* with Clone for PublisherBuilder, a &Publisher target is copied
ClonePublication(self) ==
    IF self.target = "builder"
    THEN [self EXCEPT !.publisher = Clone(@)]
    ELSE self

\* ---- the session
\* a call the session receives, with what it answered; the arguments a call
\* does not have are "-"; by and at say which publication of its handle the call
\* was made for and which resolution made it
SessionCall(fn, key, key_expr, destination, ret) ==
    [fn |-> fn, key |-> key, key_expr |-> key_expr, payload |-> <<>>,
     kind |-> "-", encoding |-> "-", congestion_control |-> "-", priority |-> "-",
     is_express |-> FALSE, destination |-> destination, reliability |-> "-",
     timestamp |-> None, source_info |-> "-", attachment |-> None,
     ret |-> ret, by |-> 0, at |-> 0]

\* session.declare_prefix(key): ret is the expr_id, 0 when the session failed
DeclarePrefix(key, ret) == SessionCall("declare_prefix", key, Literal("none", ""), "-", ret)

\* session.declare_publisher_inner(key_expr, destination): ret is the publisher
\* id, 0 when the session failed
DeclarePublisherInner(key_expr, destination, ret) ==
    SessionCall("declare_publisher_inner", key_expr.key, key_expr, destination, ret)

\* session.resolve_put(&key_expr, payload, kind, encoding, congestion_control,
\* priority, is_express, destination, reliability, timestamp, source_info,
\* attachment), the last three being those of the publication sample: ret is 1,
\* 0 when the session failed
ResolvePut(key_expr, payload, kind, encoding, qos, sample, ret) ==
    [fn |-> "resolve_put", key |-> key_expr.key, key_expr |-> key_expr,
     payload |-> payload, kind |-> kind, encoding |-> encoding,
     congestion_control |-> qos.congestion_control, priority |-> qos.priority,
     is_express |-> qos.is_express, destination |-> qos.destination,
     reliability |-> qos.reliability, timestamp |-> sample.timestamp,
     source_info |-> sample.source_info, attachment |-> sample.attachment,
     ret |-> ret, by |-> 0, at |-> 0]

\* what the session may answer to the calls of one resolution: of a
\* PublisherBuilder, of a publication
Answers == [prefix : {0} \cup ExprIds, publisher : {0} \cup PublisherIds, put : {0}]
PutAnswers == [prefix : {0}, publisher : {0}, put : {0, 1}]
\* the answers to a declaration when the session has one expr_id left to hand out
FewAnswers == [prefix : {0, 2}, publisher : {0} \cup PublisherIds, put : {0}]

\* KeyExpr::is_fully_optimized(session): the key expression carries an interned
\* prefix id for this session
IsFullyOptimized(key_expr, session) ==
    /\ key_expr.form \in {"BorrowedWire", "Wire"}
    /\ key_expr.session_id = session

\* struct Publisher
Publisher(session, id, key_expr, self) ==
    [on |-> TRUE, session |-> session, id |-> id, key_expr |-> key_expr,
     encoding |-> self.encoding, congestion_control |-> self.congestion_control,
     priority |-> self.priority, is_express |-> self.is_express,
     destination |-> self.destination, reliability |-> self.reliability,
     undeclare_on_drop |-> TRUE]

\* a rewrite that keeps the expr_id and session_id a wire form already carries
WireFormKeepsOldPrefix(key_expr, expr_id, session_id) ==
    IF key_expr.form \in {"BorrowedWire", "Wire"}
    THEN key_expr
    ELSE WireExpr(IF key_expr.form = "Borrowed" THEN "BorrowedWire" ELSE "Wire",
                  key_expr.key, expr_id, Len(key_expr.key), session_id)

\* the key expression rewritten in wire form after declare_prefix
WireForm(key_expr, expr_id, session_id) ==
    WireExpr(IF key_expr.form \in {"Borrowed", "BorrowedWire"}
             THEN "BorrowedWire" ELSE "Wire",
             key_expr.key, expr_id, Len(key_expr.key), session_id)

\* a resolution that declares the publisher before the prefix
WaitDeclaresPublisherFirst(self, answers) ==
    IF ~self.key_expr.ok
    THEN Outcome("Err", KeyError(self.key_expr.err), NoPublisher, <<>>)
    ELSE LET ke == self.key_expr.ke
             inner == DeclarePublisherInner(ke, self.destination, answers.publisher)
             prefix == DeclarePrefix(ke.key, answers.prefix)
         IN  IF answers.publisher = 0
             THEN Outcome("Err", SessionError("declare_publisher_inner"),
                          NoPublisher, <<inner>>)
             ELSE IF IsFullyOptimized(ke, self.session)
             THEN Outcome("Ok", NoError,
                          Publisher(self.session, answers.publisher, ke, self),
                          <<inner>>)
             ELSE IF answers.prefix = 0
             THEN Outcome("Err", SessionError("declare_prefix"), NoPublisher,
                          <<inner, prefix>>)
             ELSE Outcome("Ok", NoError,
                          Publisher(self.session, answers.publisher,
                                    WireForm(ke, answers.prefix, self.session), self),
                          <<inner, prefix>>)

\* a resolution that declares the prefix whatever the key expression carries
WaitAlwaysDeclaresPrefix(self, answers) ==
    IF ~self.key_expr.ok
    THEN Outcome("Err", KeyError(self.key_expr.err), NoPublisher, <<>>)
    ELSE LET ke == self.key_expr.ke
             prefix == <<DeclarePrefix(ke.key, answers.prefix)>>
             key_expr == WireForm(ke, answers.prefix, self.session)
             inner == DeclarePublisherInner(key_expr, self.destination,
                                            answers.publisher)
         IN  IF answers.prefix = 0
             THEN Outcome("Err", SessionError("declare_prefix"), NoPublisher, prefix)
             ELSE IF answers.publisher = 0
             THEN Outcome("Err", SessionError("declare_publisher_inner"),
                          NoPublisher, prefix \o <<inner>>)
             ELSE Outcome("Ok", NoError,
                          Publisher(self.session, answers.publisher, key_expr, self),
                          prefix \o <<inner>>)

\* Wait for PublisherBuilder
Wait(self, answers) ==
    IF ~self.key_expr.ok
    THEN Outcome("Err", KeyError(self.key_expr.err), NoPublisher, <<>>)
    ELSE LET ke == self.key_expr.ke
             optimized == IsFullyOptimized(ke, self.session)
             prefix == IF optimized THEN <<>>
                       ELSE <<DeclarePrefix(ke.key, answers.prefix)>>
             key_expr == IF optimized THEN ke
                         ELSE WireForm(ke, answers.prefix, self.session)
             inner == DeclarePublisherInner(key_expr, self.destination,
                                            answers.publisher)
         IN  IF ~optimized /\ answers.prefix = 0
             THEN Outcome("Err", SessionError("declare_prefix"), NoPublisher, prefix)
             ELSE IF answers.publisher = 0
             THEN Outcome("Err", SessionError("declare_publisher_inner"),
                          NoPublisher, prefix \o <<inner>>)
             ELSE Outcome("Ok", NoError,
                          Publisher(self.session, answers.publisher, key_expr, self),
                          prefix \o <<inner>>)

\* the outcome of a publication whose one session call is put
Put(put) ==
    IF put.ret = 0
    THEN Outcome("Err", SessionError("resolve_put"), NoPublisher, <<put>>)
    ELSE Outcome("Ok", NoError, NoPublisher, <<put>>)

\* a session-path Put that declares a publisher for its key first
WaitSessionPutDeclares(self, answers) ==
    IF ~self.publisher.key_expr.ok
    THEN Outcome("Err", KeyError(self.publisher.key_expr.err), NoPublisher, <<>>)
    ELSE LET p == Put(ResolvePut(self.publisher.key_expr.ke, self.payload, "Put",
                                 self.encoding, self.publisher, self, answers.put))
         IN  [p EXCEPT !.calls = <<DeclarePublisherInner(self.publisher.key_expr.ke,
                                                         self.publisher.destination,
                                                         answers.publisher)>> \o @]

\* a session-path Put that does not look at the key expression's result
WaitSessionPutUnchecked(self, answers) ==
    Put(ResolvePut(self.publisher.key_expr.ke, self.payload, "Put", self.encoding,
                   self.publisher, self, answers.put))

\* Wait for PublicationBuilder<PublisherBuilder, PublicationBuilderPut>
WaitSessionPut(self, answers) ==
    IF ~self.publisher.key_expr.ok
    THEN Outcome("Err", KeyError(self.publisher.key_expr.err), NoPublisher, <<>>)
    ELSE Put(ResolvePut(self.publisher.key_expr.ke, self.payload, "Put",
                        self.encoding, self.publisher, self, answers.put))

\* a Delete that forwards the payload and encoding of the publication it is given
WaitSessionDeleteForwards(self, answers) ==
    IF ~self.publisher.key_expr.ok
    THEN Outcome("Err", KeyError(self.publisher.key_expr.err), NoPublisher, <<>>)
    ELSE Put(ResolvePut(self.publisher.key_expr.ke, <<1>>, "Delete",
                        self.publisher.encoding, self.publisher, self, answers.put))

\* Wait for PublicationBuilder<PublisherBuilder, PublicationBuilderDelete>
WaitSessionDelete(self, answers) ==
    IF ~self.publisher.key_expr.ok
    THEN Outcome("Err", KeyError(self.publisher.key_expr.err), NoPublisher, <<>>)
    ELSE Put(ResolvePut(self.publisher.key_expr.ke, <<>>, "Delete",
                        "ZENOH_BYTES", self.publisher, self, answers.put))

\* a handle-path Put that takes its QoS from a fresh builder
WaitPublisherPutDefaultQoS(self, answers) ==
    Put(ResolvePut(self.publisher.key_expr, self.payload, "Put", self.encoding,
                   DefaultQoS, self,
                   answers.put))

\* Wait for PublicationBuilder<&Publisher, PublicationBuilderPut>
WaitPublisherPut(self, answers) ==
    Put(ResolvePut(self.publisher.key_expr, self.payload, "Put", self.encoding,
                   self.publisher, self, answers.put))

\* Wait for PublicationBuilder<&Publisher, PublicationBuilderDelete>
WaitPublisherDelete(self, answers) ==
    Put(ResolvePut(self.publisher.key_expr, <<>>, "Delete", "ZENOH_BYTES",
                   self.publisher, self, answers.put))

\* wait() on a publication, by its target and kind
WaitPublication(self, answers) ==
    IF self.target = "builder"
    THEN IF self.kind = "Put" THEN WaitSessionPut(self, answers)
         ELSE WaitSessionDelete(self, answers)
    ELSE IF self.kind = "Put" THEN WaitPublisherPut(self, answers)
         ELSE WaitPublisherDelete(self, answers)

\* IntoFuture: std::future::ready(self.wait()), the resolution is made when the
\* future is, and awaiting it yields the result
IntoFuture(self, answers) == Wait(self, answers)

\* a future that resolves nothing until it is polled
IntoFutureDeferred(self, answers) == Outcome("Ok", NoError, NoPublisher, <<>>)

IntoFuturePublication(self, answers) == WaitPublication(self, answers)

\* ------------------------------------------------------------------ builders: the state machine
\* How long the session's log of calls may grow, and how many "Cloned KE Error"
\* notes an error may gather.
MaxCalls == 4
MaxNotes == 2
\* How many publications are built on one Publisher handle.
MaxPublications == 2

\* the ZSlice side at rest
NoSlices ==
    /\ heap = (TheArc :> <<>>)
    /\ zs = FromBuf(TheArc, <<>>)
    /\ mark = NoMark
    /\ rt = NoLog
    /\ last = Call("from", NoView, 0, 0, Res("Val", 0, <<>>, zs, NoView))
    /\ overflow_checks = TRUE
    /\ alias = NoView

\* the record of a builder operation: op on self, resolved by how ("wait" or
\* "into_future"), with outcome r, the session's log being before before it
Done(op, how, self, r, before) ==
    [op |-> op, how |-> how, self |-> self, ret |-> r.ret, err |-> r.err,
     out |-> r.out, before |-> before]

\* a fluent operation that declares the key of what it returns
BuiltEagerly(b) == Outcome("Ok", NoError, b, <<DeclarePrefix("a", 0)>>)

\* the outcome of a fluent operation: the builder it returns, no session call
Built(b) == Outcome("Ok", NoError, b, <<>>)

\* the key expressions session.declare_publisher is given, parsed or not
KeyResults == {OkKey(ke) : ke \in KeyExprs} \cup {ErrKey(0)}

\* the key expressions session.put and session.delete are given
SessionKeyResults ==
    {OkKey(Literal("Borrowed", "a/b")),
     OkKey(WireExpr("Wire", "a", OldExprId, 1, TheSession)),
     ErrKey(0)}

\* the caller has just asked the session for a builder: declare_publisher, put
\* or delete
InitBuilder ==
    /\ NoSlices
    /\ publisher = NoPublisher
    /\ calls = <<>>
    /\ done = Done("new", "-", NoBuilder, Built(NoBuilder), <<>>)
    /\ waits = 0
    /\ \/ \E k \in KeyResults :
             /\ builder = DeclarePublisher(k)
             /\ pending = <<>>
       \/ \E k \in SessionKeyResults, payload \in Payloads, e \in Encodings :
             /\ builder = NoBuilder
             /\ pending = <<SessionPut(k, payload, e)>>
       \/ \E k \in SessionKeyResults :
             /\ builder = NoBuilder
             /\ pending = <<SessionDelete(k)>>

\* a fluent configurator of the PublisherBuilder in hand has returned b
Configure(op, b) ==
    /\ builder.on
    /\ builder' = b
    /\ done' = Done(op, "-", NoBuilder, Built(NoBuilder), calls)
    /\ calls' = calls \o Built(b).calls
    /\ UNCHANGED <<pending, publisher, waits, zvars>>

\* a fluent configurator of the i-th publication in hand has returned p
ConfigurePublication(op, i, p) ==
    /\ pending' = [pending EXCEPT ![i] = p]
    /\ done' = Done(op, "-", NoBuilder, Built(NoBuilder), calls)
    /\ calls' = calls \o Built(p).calls
    /\ UNCHANGED <<builder, publisher, waits, zvars>>

\* the QoS configurators exist for PublicationBuilder<PublisherBuilder, T> only
OnSessionPath(i) == i \in 1..Len(pending) /\ pending[i].target = "builder"

\* encoding exists for PublicationBuilder<P, PublicationBuilderPut> only
PutEncodingCall(i, v) ==
    /\ i \in 1..Len(pending)
    /\ pending[i].kind = "Put"
    /\ ConfigurePublication("encoding", i, PutEncoding(pending[i], v))

SourceInfoCall(i, v) ==
    /\ i \in 1..Len(pending)
    /\ ConfigurePublication("source_info", i, SourceInfo(pending[i], v))
AttachmentCall(i, v) ==
    /\ i \in 1..Len(pending)
    /\ ConfigurePublication("attachment", i, Attachment(pending[i], v))
TimestampCall(i, v) ==
    /\ i \in 1..Len(pending)
    /\ ConfigurePublication("timestamp", i, Timestamp(pending[i], v))

\* builder.clone(): the caller holds the clone next to the original
CloneCall ==
    /\ builder.on
    /\ builder.key_expr.ok \/ builder.key_expr.err < MaxNotes
    /\ done' = Done("clone", "-", builder, Built(Clone(builder)), calls)
    /\ calls' = calls \o Built(Clone(builder)).calls
    /\ UNCHANGED <<builder, pending, publisher, waits, zvars>>

\* the caller drops the original and goes on with the clone
UseClone ==
    /\ done.op = "clone"
    /\ done.self = builder
    /\ builder' = done.out
    /\ done' = Done("drop", "-", NoBuilder, Built(NoBuilder), calls)
    /\ calls' = calls \o Built(done.out).calls
    /\ UNCHANGED <<pending, publisher, waits, zvars>>

\* pending[i].clone(), held next to the original
ClonePublicationCall(i) ==
    /\ i \in 1..Len(pending)
    /\ pending[i].target = "publisher" \/ pending[i].publisher.key_expr.ok
       \/ pending[i].publisher.key_expr.err < MaxNotes
    /\ done' = Done("clone_publication", "-", pending[i],
                    Built(ClonePublication(pending[i])), calls)
    /\ calls' = calls \o Built(ClonePublication(pending[i])).calls
    /\ UNCHANGED <<builder, pending, publisher, waits, zvars>>

\* the sequence s without its i-th element
Without(s, i) == SubSeq(s, 1, i - 1) \o SubSeq(s, i + 1, Len(s))

\* the caller drops the builder in hand, or the i-th publication
DropCall ==
    /\ builder.on
    /\ builder' = NoBuilder
    /\ done' = Done("drop", "-", NoBuilder, Built(NoBuilder), calls)
    /\ calls' = calls \o Built(NoBuilder).calls
    /\ UNCHANGED <<pending, publisher, waits, zvars>>

DropPublicationCall(i) ==
    /\ i \in 1..Len(pending)
    /\ pending' = Without(pending, i)
    /\ done' = Done("drop_publication", "-", NoBuilder, Built(NoBuilder), calls)
    /\ calls' = calls \o Built(NoBuilder).calls
    /\ UNCHANGED <<builder, publisher, waits, zvars>>

\* the calls made by the at-th resolution, for the publication built seq-th on
\* its handle
MadeBy(made, seq, at) ==
    [k \in 1..Len(made) |-> [made[k] EXCEPT !.by = seq, !.at = at]]

\* builder.wait() or builder.await: the builder is consumed, the caller holds
\* the Publisher it returned
WaitCall(how, answers) ==
    LET r == IF how = "wait" THEN Wait(builder, answers)
             ELSE IntoFuture(builder, answers)
    IN  /\ builder.on
        /\ Len(calls) + 2 <= MaxCalls
        /\ builder' = NoBuilder
        /\ publisher' = IF r.ret = "Ok" THEN r.out ELSE publisher
        /\ calls' = calls \o MadeBy(r.calls, 0, waits + 1)
        /\ done' = Done("wait", how, builder, r, calls)
        /\ waits' = waits + 1
        /\ UNCHANGED <<pending, zvars>>

\* pending[i].wait() or pending[i].await: the publication is consumed
WaitPublicationCall(i, how, answers) ==
    LET self == pending[i]
        r == IF how = "wait" THEN WaitPublication(self, answers)
             ELSE IntoFuturePublication(self, answers)
    IN  /\ i \in 1..Len(pending)
        /\ Len(calls) + 1 <= MaxCalls
        /\ pending' = Without(pending, i)
        /\ calls' = calls \o MadeBy(r.calls, self.seq, waits + 1)
        /\ done' = Done("wait_publication", how, self, r, calls)
        /\ waits' = waits + 1
        /\ UNCHANGED <<builder, publisher, zvars>>

\* how many publications have been built on the handle so far
IsResolvePut(c) == c.fn = "resolve_put"
BuiltOnHandle == Len(SelectSeq(calls, IsResolvePut)) + Len(pending)

\* publisher.put(payload) and publisher.delete(): one more publication in hand
PublisherPutCall(payload, encoding) ==
    /\ publisher.on
    /\ BuiltOnHandle < MaxPublications
    /\ pending' = Append(pending,
                         PublisherPut(publisher, payload, encoding, BuiltOnHandle + 1))
    /\ done' = Done("new", "-", NoBuilder, Built(NoBuilder), calls)
    /\ calls' = calls \o Built(pending'[Len(pending')]).calls
    /\ UNCHANGED <<builder, publisher, waits, zvars>>

PublisherDeleteCall ==
    /\ publisher.on
    /\ BuiltOnHandle < MaxPublications
    /\ pending' = Append(pending, PublisherDelete(publisher, BuiltOnHandle + 1))
    /\ done' = Done("new", "-", NoBuilder, Built(NoBuilder), calls)
    /\ calls' = calls \o Built(pending'[Len(pending')]).calls
    /\ UNCHANGED <<builder, publisher, waits, zvars>>

Hows == {"wait", "into_future"}

\* building, configuring, cloning, dropping and resolving a PublisherBuilder
\* or a session-path publication
NextBuilder ==
    \/ \E v \in CongestionControls :
          Configure("congestion_control", CongestionControl(builder, v))
    \/ \E v \in Priorities : Configure("priority", Priority(builder, v))
    \/ \E v \in BOOLEAN : Configure("express", Express(builder, v))
    \/ \E v \in Localities :
          Configure("allowed_destination", AllowedDestination(builder, v))
    \/ \E v \in Reliabilities : Configure("reliability", Reliability(builder, v))
    \/ \E v \in Encodings : Configure("encoding", Encoding(builder, v))
    \/ \E v \in CongestionControls :
          /\ OnSessionPath(1)
          /\ ConfigurePublication("congestion_control", 1,
                                  PublicationCongestionControl(pending[1], v))
    \/ \E v \in Priorities :
          /\ OnSessionPath(1)
          /\ ConfigurePublication("priority", 1, PublicationPriority(pending[1], v))
    \/ \E v \in BOOLEAN :
          /\ OnSessionPath(1)
          /\ ConfigurePublication("express", 1, PublicationExpress(pending[1], v))
    \/ \E v \in Localities :
          /\ OnSessionPath(1)
          /\ ConfigurePublication("allowed_destination", 1,
                                  PublicationAllowedDestination(pending[1], v))
    \/ \E v \in Reliabilities :
          /\ OnSessionPath(1)
          /\ ConfigurePublication("reliability", 1,
                                  PublicationReliability(pending[1], v))
    \/ \E v \in Encodings : PutEncodingCall(1, v)
    \/ \E v \in SourceInfos : SourceInfoCall(1, v)
    \/ \E v \in Attachments : AttachmentCall(1, v)
    \/ \E v \in Timestamps : TimestampCall(1, v)
    \/ CloneCall
    \/ UseClone
    \/ ClonePublicationCall(1)
    \/ DropCall
    \/ DropPublicationCall(1)
    \/ \E how \in Hows, answers \in Answers : WaitCall(how, answers)
    \/ \E how \in Hows, answers \in PutAnswers : WaitPublicationCall(1, how, answers)

\* the lazy builders and their resolution
SpecBuilder == InitBuilder /\ [][NextBuilder]_vars

\* a QoS with no setting left at its default
OtherQoS ==
    [encoding |-> "TEXT_PLAIN", congestion_control |-> "Block",
     priority |-> "RealTime", is_express |-> TRUE, reliability |-> "BestEffort",
     destination |-> "SessionLocal"]

\* the builders the caller has configured: all settings untouched or all set,
\* the key expression parsed or not
Configured ==
    {PublisherBuilder(k, q) :
        k \in {OkKey(Literal("Borrowed", "a/b")), ErrKey(0)},
        q \in {DefaultQoS, OtherQoS}}

\* the caller holds a configured PublisherBuilder, or a session-path
\* publication on one
InitPublisher ==
    /\ NoSlices
    /\ publisher = NoPublisher
    /\ calls = <<>>
    /\ done = Done("new", "-", NoBuilder, Built(NoBuilder), <<>>)
    /\ waits = 0
    /\ \/ /\ builder \in Configured
          /\ pending = <<>>
       \/ \E b \in Configured, payload \in Payloads, e \in Encodings :
             /\ builder = NoBuilder
             /\ pending = <<[SessionPut(b.key_expr, payload, e) EXCEPT !.publisher = b]>>
       \/ \E b \in Configured :
             /\ builder = NoBuilder
             /\ pending = <<[SessionDelete(b.key_expr) EXCEPT !.publisher = b]>>

\* declaring a publisher and publishing through it, one publication at a
\* time, or through the session
NextPublisher ==
    \/ \E how \in Hows, answers \in FewAnswers : WaitCall(how, answers)
    \/ \E payload \in Payloads, e \in Encodings :
          pending = <<>> /\ PublisherPutCall(payload, e)
    \/ pending = <<>> /\ PublisherDeleteCall
    \/ \E v \in Encodings : PutEncodingCall(1, v)
    \/ \E v \in Attachments : AttachmentCall(1, v)
    \/ \E v \in Timestamps : TimestampCall(1, v)
    \/ \E how \in Hows, answers \in PutAnswers : WaitPublicationCall(1, how, answers)

\* the life of a declared publisher
SpecPublisher == InitPublisher /\ [][NextPublisher]_vars

\* the caller holds a configured PublisherBuilder
InitOrder ==
    /\ NoSlices
    /\ publisher = NoPublisher
    /\ calls = <<>>
    /\ done = Done("new", "-", NoBuilder, Built(NoBuilder), <<>>)
    /\ waits = 0
    /\ builder \in Configured
    /\ pending = <<>>

\* several publications built on one handle and resolved in any order
NextOrder ==
    \/ \E how \in Hows, answers \in FewAnswers : WaitCall(how, answers)
    \/ PublisherPutCall(<<1>>, "TEXT_PLAIN")
    \/ PublisherDeleteCall
    \/ \E i \in 1..MaxPublications, v \in Timestamps : TimestampCall(i, v)
    \/ \E i \in 1..MaxPublications, how \in Hows, answers \in PutAnswers :
          WaitPublicationCall(i, how, answers)

\* publications of one handle, held together
SpecOrder == InitOrder /\ [][NextOrder]_vars

\* ------------------------------------------------------------------ builders: properties
\* the session calls the last operation made, in order
Made == SubSeq(calls, Len(done.before) + 1, Len(calls))

\* where in Made the calls of fn are
At(fn) == {k \in 1..Len(Made) : Made[k].fn = fn}

\* the last operation only added its calls to the session's log
LogGrew == Len(done.before) <= Len(calls) /\ SubSeq(calls, 1, Len(done.before)) = done.before

\* C13: a successful resolution of a PublisherBuilder calls declare_prefix at
\* most once and declare_publisher_inner exactly once, declare_prefix (when
\* called) strictly before declare_publisher_inner, and never resolve_put.
C13_DeclareCalls ==
    (done.op = "wait" /\ done.ret = "Ok") =>
        /\ LogGrew
        /\ Cardinality(At("declare_prefix")) <= 1
        /\ Cardinality(At("declare_publisher_inner")) = 1
        /\ \A i \in At("declare_prefix"), j \in At("declare_publisher_inner") : i < j
        /\ At("resolve_put") = {}
        /\ Len(Made) = Cardinality(At("declare_prefix")) + 1

\* a builder was resolved into a handle with both declarations made
C13_Witness ==
    /\ done.op = "wait" /\ done.ret = "Ok"
    /\ publisher.on
    /\ Len(Made) = 2
    /\ Made[1].fn = "declare_prefix"

\* the call c carries the QoS of the builder or handle p
SameQoS(c, p) ==
    /\ c.congestion_control = p.congestion_control
    /\ c.priority = p.priority
    /\ c.is_express = p.is_express
    /\ c.destination = p.destination
    /\ c.reliability = p.reliability

\* the last operation made one call, the resolve_put of a Delete
OneDelete ==
    /\ LogGrew
    /\ Len(Made) = 1
    /\ Made[1].fn = "resolve_put"
    /\ Made[1].payload = <<>>
    /\ Made[1].kind = "Delete"
    /\ Made[1].encoding = "ZENOH_BYTES"
    /\ done.self.target = "publisher" =>
          SameQoS(Made[1], done.self.publisher) /\ done.self.publisher = publisher

\* C14 as stated: resolving any Delete publication, on the session path or on
\* the handle path, issues exactly one resolve_put, of an empty payload, kind
\* Delete and the reserved encoding, with the handle's QoS on the handle path.
C14_DeleteAlways ==
    (done.op = "wait_publication" /\ done.self.kind = "Delete") => OneDelete

\* C14: resolving a Delete publication on the handle path, or on the session
\* path with a valid key expression, issues exactly one resolve_put, of an
\* empty payload, kind Delete and the reserved encoding, with the handle's QoS
\* on the handle path.
C14_Delete ==
    (/\ done.op = "wait_publication"
     /\ done.self.kind = "Delete"
     /\ done.self.target = "builder" => done.self.publisher.key_expr.ok) => OneDelete

\* a Delete went through a handle whose encoding and QoS are not the defaults
C14_Witness ==
    /\ done.op = "wait_publication"
    /\ done.self.kind = "Delete"
    /\ done.self.target = "publisher"
    /\ publisher.encoding = "TEXT_PLAIN"
    /\ Len(Made) = 1
    /\ Made[1].encoding = "ZENOH_BYTES"
    /\ Made[1].congestion_control = "Block"

\* C15: resolving a session-path Put or Delete whose builder holds a valid key
\* expression issues exactly one resolve_put, with the builder's key expression
\* and QoS, the sample kind and, for a Put, the payload and encoding provided;
\* it calls neither declare_prefix nor declare_publisher_inner and yields no
\* Publisher handle.
C15_SessionPath ==
    (/\ done.op = "wait_publication"
     /\ done.self.target = "builder"
     /\ done.self.publisher.key_expr.ok) =>
        /\ LogGrew
        /\ Len(Made) = 1
        /\ Made[1].fn = "resolve_put"
        /\ At("declare_prefix") = {} /\ At("declare_publisher_inner") = {}
        /\ Made[1].key_expr = done.self.publisher.key_expr.ke
        /\ SameQoS(Made[1], done.self.publisher)
        /\ Made[1].kind = done.self.kind
        /\ done.self.kind = "Put" =>
              /\ Made[1].payload = done.self.payload
              /\ Made[1].encoding = done.self.encoding
        /\ Made[1].timestamp = done.self.timestamp
        /\ Made[1].attachment = done.self.attachment
        /\ done.out = NoPublisher
        /\ publisher = NoPublisher
        /\ done.ret = IF Made[1].ret = 0 THEN "Err" ELSE "Ok"

\* a Put on "a/b" with a payload, encoding TEXT_PLAIN, congestion control Block,
\* the default priority and express off has been resolved
C15_Witness ==
    /\ done.op = "wait_publication"
    /\ done.ret = "Ok"
    /\ done.self.target = "builder"
    /\ done.self.kind = "Put"
    /\ done.self.publisher.key_expr = OkKey(Literal("Borrowed", "a/b"))
    /\ Len(Made) = 1
    /\ Made[1].payload = <<1>>
    /\ Made[1].encoding = "TEXT_PLAIN"
    /\ Made[1].congestion_control = "Block"
    /\ Made[1].priority = "Data"
    /\ ~Made[1].is_express

\* C16: builders are lazy. Constructing a PublisherBuilder or a
\* PublicationBuilder, applying fluent configurators, cloning and dropping make
\* no session call: as long as nothing has been resolved by wait() or await the
\* session has received no call, and an operation that is not a resolution
\* leaves the session's log as it was.
C16_Lazy ==
    /\ waits = 0 => calls = <<>>
    /\ done.op \notin {"wait", "wait_publication"} => calls = done.before

\* a builder that was constructed and configured has been cloned, nothing
\* having been resolved
C16_Witness ==
    /\ waits = 0
    /\ done.op = "clone"
    /\ done.self.congestion_control = "Block"
    /\ done.self.encoding = "TEXT_PLAIN"
    /\ done.self.is_express
    /\ done.out = done.self
    /\ calls = <<>>

\* C17: puts and deletes on a Publisher handle reach the session in the order
\* of their wait()/await: each resolution appends exactly one resolve_put, made
\* for its own publication, to the end of the session's log, so that the log
\* lists the resolve_puts in the order of the resolutions, whatever the order
\* in which the publications were built.
C17_WaitOrder ==
    /\ (done.op = "wait_publication" /\ done.self.target = "publisher") =>
          /\ LogGrew
          /\ Len(Made) = 1
          /\ Made[1].fn = "resolve_put"
          /\ Made[1].by = done.self.seq
          /\ Made[1].kind = done.self.kind
          /\ Made[1].at = waits
    /\ \A i, j \in 1..Len(calls) :
          (i < j /\ calls[i].fn = "resolve_put" /\ calls[j].fn = "resolve_put")
              => calls[i].at < calls[j].at

\* two publications of one handle were resolved against the order in which
\* they were built: the Delete built second reached the session before the Put
C17_Witness ==
    \E i, j \in 1..Len(calls) :
        /\ i < j
        /\ calls[i].fn = "resolve_put" /\ calls[j].fn = "resolve_put"
        /\ calls[i].by > calls[j].by
        /\ calls[i].kind = "Delete" /\ calls[j].kind = "Put"
        /\ done.how = "into_future"

\* the key expression result of the builder the last operation resolved
ResolvedKey ==
    IF done.op = "wait" THEN done.self.key_expr ELSE done.self.publisher.key_expr

\* C18: a deferred key-expression error is surfaced at resolution and nothing
\* else happens: resolving a PublisherBuilder, or a session-path Put or Delete,
\* whose key_expr is an error returns that error, makes no session call and
\* yields no Publisher handle.
C18_KeyError ==
    (/\ \/ done.op = "wait"
        \/ done.op = "wait_publication" /\ done.self.target = "builder"
     /\ ~ResolvedKey.ok) =>
        /\ done.ret = "Err"
        /\ done.err = KeyError(ResolvedKey.err)
        /\ calls = done.before
        /\ done.out = NoPublisher
        /\ publisher = NoPublisher

\* a session-path Put on a key expression that failed to parse was resolved
C18_Witness ==
    /\ done.op = "wait_publication"
    /\ done.self.target = "builder"
    /\ done.self.kind = "Put"
    /\ ~done.self.publisher.key_expr.ok
    /\ done.self.payload = <<1>>
    /\ done.ret = "Err"

\* C19: cloning a PublisherBuilder never turns a failure into a success. The
\* clone's key expression is Ok, and equal to the original's, exactly when the
\* original's is Ok; a clone of a failed builder is failed and errors at
\* resolution; every other field equals the original's; the original is
\* unchanged.
C19_CloneKeepsFailure ==
    done.op = "clone" =>
        LET original == done.self
            clone == done.out
        IN  /\ clone.key_expr.ok = original.key_expr.ok
            /\ original.key_expr.ok => clone.key_expr = original.key_expr
            /\ ~original.key_expr.ok =>
                  \A how \in Hows, answers \in Answers :
                      LET r == IF how = "wait" THEN Wait(clone, answers)
                               ELSE IntoFuture(clone, answers)
                      IN  r.ret = "Err" /\ r.calls = <<>> /\ r.out = NoPublisher
            /\ clone.on
            /\ clone.session = original.session
            /\ clone.encoding = original.encoding
            /\ clone.congestion_control = original.congestion_control
            /\ clone.priority = original.priority
            /\ clone.is_express = original.is_express
            /\ clone.reliability = original.reliability
            /\ clone.destination = original.destination
            /\ builder = original

\* a configured builder whose key expression failed to parse has been cloned
C19_Witness ==
    /\ done.op = "clone"
    /\ ~done.self.key_expr.ok
    /\ ~done.out.key_expr.ok
    /\ done.self.is_express
    /\ done.self.destination = "SessionLocal"
    /\ builder = done.self

\* C20: a declared publisher's QoS is fixed at declaration. The handle a
\* resolution returns carries the builder's encoding, congestion control,
\* priority, express flag, destination and reliability as they were at the
\* resolution, the id declare_publisher_inner returned and undeclare_on_drop =
\* TRUE; every Put or Delete through the handle passes the handle's key
\* expression and QoS to resolve_put; the publications' own configurators
\* (timestamp, attachment, Put encoding) leave the handle as it was.
C20_QoSFixed ==
    /\ (done.op = "wait" /\ done.ret = "Ok") =>
          /\ publisher = done.out
          /\ publisher.on
          /\ publisher.session = done.self.session
          /\ publisher.encoding = done.self.encoding
          /\ SameQoS(publisher, done.self)
          /\ publisher.undeclare_on_drop
          /\ Len(Made) >= 1
          /\ Made[Len(Made)].fn = "declare_publisher_inner"
          /\ publisher.id = Made[Len(Made)].ret
          /\ publisher.key_expr = Made[Len(Made)].key_expr
    /\ (done.op = "wait_publication" /\ done.self.target = "publisher") =>
          /\ Len(Made) = 1
          /\ Made[1].fn = "resolve_put"
          /\ Made[1].key_expr = publisher.key_expr
          /\ SameQoS(Made[1], publisher)
          /\ done.self.publisher = publisher
    /\ \A i \in 1..Len(pending) :
          pending[i].target = "publisher" => pending[i].publisher = publisher
    /\ \A i \in 1..Len(calls) :
          calls[i].fn = "declare_publisher_inner" /\ calls[i].ret # 0 =>
              /\ publisher.on
              /\ publisher.id = calls[i].ret
              /\ publisher.key_expr = calls[i].key_expr
              /\ publisher.destination = calls[i].destination

\* a Put whose encoding, timestamp and attachment were set on the publication
\* went through a handle declared with another encoding and a QoS of its own
C20_Witness ==
    /\ done.op = "wait_publication"
    /\ done.self.target = "publisher"
    /\ done.self.kind = "Put"
    /\ done.self.timestamp # None
    /\ done.self.attachment # None
    /\ publisher.encoding = "TEXT_PLAIN"
    /\ publisher.id = 2
    /\ Len(Made) = 1
    /\ Made[1].encoding = "ZENOH_BYTES"
    /\ Made[1].congestion_control = "Block"
    /\ Made[1].is_express
    /\ Made[1].reliability = "BestEffort"
    /\ Len(calls) = 4

\* C21: a resolution of the Publisher Builder calls declare_prefix, with the
\* string of the key expression, exactly when the key expression is not fully
\* optimised against the session; when it is, declare_prefix is not called
\* and the key expression handed to declare_publisher_inner and stored in the
\* handle is the builder's, unchanged
C21_PrefixWhenNotOptimized ==
    (done.op = "wait" /\ done.self.key_expr.ok) =>
        LET ke == done.self.key_expr.ke
            optimized == IsFullyOptimized(ke, done.self.session)
        IN  /\ LogGrew
            /\ (At("declare_prefix") # {}) <=> ~optimized
            /\ \A k \in At("declare_prefix") : k = 1 /\ Made[k].key = ke.key
            /\ optimized =>
                  /\ Len(Made) = 1
                  /\ Made[1].fn = "declare_publisher_inner"
                  /\ Made[1].key_expr = ke
                  /\ done.ret = "Ok" =>
                        /\ done.out.key_expr = ke
                        /\ publisher.key_expr = ke

\* a builder whose key expression already carries a prefix of this session
\* was resolved into a handle, with one session call
C21_Witness ==
    /\ done.op = "wait"
    /\ done.self.key_expr.ok
    /\ IsFullyOptimized(done.self.key_expr.ke, done.self.session)
    /\ done.self.key_expr.ke.expr_id = OldExprId
    /\ done.ret = "Ok"
    /\ publisher.on
    /\ publisher.key_expr.expr_id = OldExprId
    /\ Len(Made) = 1

\* C22: when a resolution of the Publisher Builder declared a prefix, the key
\* expression handed to declare_publisher_inner and stored in the handle is
\* in wire form, with the expr_id that declare_prefix returned, the mapping
\* Sender, a prefix_len that is the length of the whole key string and the
\* id of the resolving session; the key string is unchanged, borrowed forms
\* become wire-borrowed and owned forms wire-owned, and what a wire form
\* carried for another session is overwritten
C22_WireFormAfterPrefix ==
    (/\ done.op = "wait"
     /\ At("declare_prefix") # {}
     /\ Made[1].ret # 0) =>
        LET ke == done.self.key_expr.ke
            sent == Made[2].key_expr
        IN  /\ Len(Made) = 2
            /\ Made[1].fn = "declare_prefix"
            /\ Made[2].fn = "declare_publisher_inner"
            /\ sent.expr_id = Made[1].ret
            /\ sent.mapping = "Sender"
            /\ sent.prefix_len = Len(ke.key)
            /\ sent.session_id = done.self.session
            /\ sent.key = ke.key
            /\ ke.form \in {"Borrowed", "BorrowedWire"} => sent.form = "BorrowedWire"
            /\ ke.form \in {"Owned", "Wire"} => sent.form = "Wire"
            /\ ke.form \in {"BorrowedWire", "Wire"} =>
                  /\ sent.expr_id # ke.expr_id
                  /\ sent.session_id # ke.session_id
            /\ done.ret = "Ok" =>
                  /\ done.out.key_expr = sent
                  /\ publisher.key_expr = sent

\* a wire-owned key expression of another session was resolved: the handle
\* carries the new expr_id and this session's id
C22_Witness ==
    /\ done.op = "wait"
    /\ done.self.key_expr.ok
    /\ done.self.key_expr.ke.form = "Wire"
    /\ done.self.key_expr.ke.session_id = OtherSession
    /\ done.self.key_expr.ke.key = "a/b"
    /\ done.ret = "Ok"
    /\ Len(Made) = 2
    /\ Made[1].fn = "declare_prefix"
    /\ Made[1].ret = 3
    /\ publisher.on
    /\ publisher.key_expr.form = "Wire"
    /\ publisher.key_expr.expr_id = 3
    /\ publisher.key_expr.prefix_len = 3
    /\ publisher.key_expr.session_id = TheSession

\* what the session calls of the log made registered on the session: a call
\* the session answered with an id registered that id, a call it refused
\* registered nothing, and the builders make no call that withdraws an id
Registered(made) ==
    {k \in 1..Len(made) : /\ made[k].fn \in {"declare_prefix", "declare_publisher_inner"}
                          /\ made[k].ret # 0}

\* C23: when a session call fails during a resolution of the Publisher
\* Builder, the resolution returns that first error unchanged, makes no
\* session call after the failing one (declare_publisher_inner is never
\* called after a failed declare_prefix), produces no Publisher Handle, and
\* nothing this resolution registered on the session, prefix or publisher,
\* remains after the failure
C23_FailureLeavesNothing ==
    (/\ done.op = "wait"
     /\ done.ret = "Err"
     /\ done.err.in # "key_expr") =>
        /\ LogGrew
        /\ Len(Made) >= 1
        /\ Made[Len(Made)].ret = 0
        /\ done.err = SessionError(Made[Len(Made)].fn)
        /\ \A k \in 1..(Len(Made) - 1) : Made[k].ret # 0
        /\ (Made[1].fn = "declare_prefix" /\ Made[1].ret = 0) => Len(Made) = 1
        /\ done.out = NoPublisher
        /\ Registered(Made) = {}

====
